---- MODULE Spec2Model ----
(***************************************************************************)
(* Configuration Document Engine of the blog configuration tool.           *)
(*                                                                         *)
(*   YamlService   : parse / serialize / reset / applyDefaults /           *)
(*                   updateDocument over one cached Document               *)
(*   ConfigService : createBackup / readConfig / updateConfig /            *)
(*                   mergeConfig, one step per file I/O suspension point   *)
(*                                                                         *)
(* JavaScript values are tagged records:                                   *)
(*   [t |-> "undef"], [t |-> "null"], [t |-> "bool", b |-> "true"],        *)
(*   [t |-> "num", n |-> "12"], [t |-> "str", s |-> "abc"],                *)
(*   [t |-> "list", l |-> <<...>>], [t |-> "map", m |-> [key |-> value]]   *)
(* YAML text is a tree of tokens (a scalar token is its style and its      *)
(* source characters); parsing resolves a token to a typed scalar by the   *)
(* YAML core schema and emitting chooses the token of a typed scalar, so   *)
(* text and value are different things and a round trip is a real check.   *)
(***************************************************************************)
EXTENDS Integers, Sequences, FiniteSets, TLC

\* ------------------------------------------------------------------------
\* JavaScript values
\* ------------------------------------------------------------------------
Undef == [t |-> "undef"]
Null == [t |-> "null"]
Bool(b) == [t |-> "bool", b |-> b]
True == Bool("true")
False == Bool("false")
Num(n) == [t |-> "num", n |-> n]
Str(s) == [t |-> "str", s |-> s]
List(l) == [t |-> "list", l |-> l]
Map(m) == [t |-> "map", m |-> m]
EmptyMap == Map(<<>>)

\* typeof v === 'object' && !Array.isArray(v) && v !== null
IsObject(v) == v.t = "map"

\* JavaScript truthiness: undefined, null, false, 0 and '' are falsy
Truthy(v) ==
  CASE v.t = "undef" -> FALSE
    [] v.t = "null" -> FALSE
    [] v.t = "bool" -> v.b = "true"
    [] v.t = "num" -> v.n # "0"
    [] v.t = "str" -> v.s # ""
    [] OTHER -> TRUE

\* property access v.k (v?.k on undefined/null): undefined unless v is an
\* object that has k
Get(v, k) == IF v.t = "map" /\ k \in DOMAIN v.m THEN v.m[k] ELSE Undef

\* the characters of the strings of the model's universe, for the spread of a
\* string ({...'ab'} is {0: 'a', 1: 'b'})
StrChars(s) ==
  CASE s = "" -> <<>>
    [] s = "true" -> <<"t", "r", "u", "e">>
    [] s = "12" -> <<"1", "2">>
    [] s = "left" -> <<"l", "e", "f", "t">>
    [] OTHER -> <<s>>

IndexKey(i) == CASE i = 1 -> "0" [] i = 2 -> "1" [] i = 3 -> "2" [] OTHER -> "3"

\* the own enumerable properties an object spread {...v} copies
SpreadOf(v) ==
  CASE v.t = "map" -> v.m
    [] v.t = "list" ->
         [k \in {IndexKey(i) : i \in 1..Len(v.l)} |->
            v.l[CHOOSE i \in 1..Len(v.l) : IndexKey(i) = k]]
    [] v.t = "str" ->
         LET cs == StrChars(v.s) IN
         [k \in {IndexKey(i) : i \in 1..Len(cs)} |->
            Str(cs[CHOOSE i \in 1..Len(cs) : IndexKey(i) = k])]
    [] OTHER -> <<>>

\* { ...a, ...b } over the property tables a and b
Overlay(a, b) ==
  [k \in DOMAIN a \cup DOMAIN b |-> IF k \in DOMAIN b THEN b[k] ELSE a[k]]

\* { ...a, ...b } over values
Spread2(a, b) == Map(Overlay(SpreadOf(a), SpreadOf(b)))

\* ------------------------------------------------------------------------
\* DEFAULT_CONFIG
\* ------------------------------------------------------------------------
\* new Date().getFullYear() at module load
YearStr == "2026"

DEFAULT_ICON ==
  Map([k \in {"url", "rotate", "mask"} |->
        CASE k = "url" -> Str("") [] OTHER -> False])

DEFAULT_FOOTER ==
  Map([k \in {"since", "powered", "count", "busuanzi", "icon"} |->
        CASE k = "since" -> Num(YearStr)
          [] k = "powered" -> True
          [] k = "count" -> True
          [] k = "busuanzi" -> False
          [] OTHER -> DEFAULT_ICON])

EnableFalse == Map([k \in {"enable"} |-> False])

DefaultGroups ==
  {"reimu_cursor", "comment", "algolia_search", "preloader", "animation",
   "firework", "article_copyright", "sponsor"}

DEFAULT_CONFIG ==
  Map([k \in {"menu", "mainSections", "author", "email", "description",
              "subtitle", "banner", "avatar", "toc", "yearFormat",
              "monthFormat", "dateFormat", "timeFormat", "footer", "sidebar",
              "social", "widgets", "dark_mode", "share"} \cup DefaultGroups |->
        CASE k \in {"menu", "widgets", "share"} -> List(<<>>)
          [] k = "mainSections" -> List(<<Str("post")>>)
          [] k \in {"author", "email", "description", "subtitle", "banner",
                    "avatar"} -> Str("")
          [] k = "toc" -> True
          [] k = "yearFormat" -> Str("2006")
          [] k = "monthFormat" -> Str("2006-01")
          [] k = "dateFormat" -> Str("2006-01-02")
          [] k = "timeFormat" -> Str("2006-01-02 15:04:05")
          [] k = "footer" -> DEFAULT_FOOTER
          [] k = "sidebar" -> Str("left")
          [] k = "social" -> EmptyMap
          [] k = "dark_mode" ->
               Map([j \in {"enable", "auto"} |-> False])
          [] OTHER -> EnableFalse])

\* ------------------------------------------------------------------------
\* YamlService.applyDefaults
\* ------------------------------------------------------------------------
applyNoDefaults(parsed) ==
  IF ~Truthy(parsed) THEN EmptyMap ELSE Spread2(EmptyMap, parsed)

applyDefaultsSwapped(parsed) ==
  IF ~Truthy(parsed) THEN Spread2(DEFAULT_CONFIG, EmptyMap)
  ELSE Spread2(parsed, DEFAULT_CONFIG)

applyDefaults(parsed) ==
  IF ~Truthy(parsed) THEN Spread2(DEFAULT_CONFIG, EmptyMap)
  ELSE
    LET base == SpreadOf(Spread2(DEFAULT_CONFIG, parsed))
        pf == Get(parsed, "footer")
        pc == Get(parsed, "reimu_cursor")
        pd == Get(parsed, "dark_mode")
        footer ==
          Map(Overlay(SpreadOf(Spread2(DEFAULT_FOOTER, pf)),
                [k \in {"icon"} |-> Spread2(DEFAULT_ICON, Get(pf, "icon"))]))
        r1 == IF Truthy(pf) THEN Overlay(base, [k \in {"footer"} |-> footer])
              ELSE base
        r2 == IF Truthy(pc)
              THEN Overlay(r1, [k \in {"reimu_cursor"} |->
                     Spread2(DEFAULT_CONFIG.m["reimu_cursor"], pc)])
              ELSE r1
        r3 == IF Truthy(pd)
              THEN Overlay(r2, [k \in {"dark_mode"} |->
                     Spread2(DEFAULT_CONFIG.m["dark_mode"], pd)])
              ELSE r2
    IN Map(r3)

\* ------------------------------------------------------------------------
\* YAML text and Document (the yaml package behind YamlService)
\*
\* text     : [errors, root] with root a tree of
\*              [t |-> "none"]                       no content
\*              [t |-> "tok", q, src]                scalar token, q = quoted
\*              [t |-> "seq", items, cmt]            sequence; cmt is a
\*                                                   comment line among its
\*                                                   items
\*              [t |-> "ymap", items]                mapping; an item is
\*                                                   [key, val, cmt]
\*            cmt is the standalone comment line kept before the item
\*            ("" when there is none)
\* Document : the same tree with resolved scalars
\*              [t |-> "sc", q, src, val]
\* ------------------------------------------------------------------------
NoNode == [t |-> "none"]
Tok(q, src) == [t |-> "tok", q |-> q, src |-> src]
Plain(src) == Tok(FALSE, src)
Quoted(src) == Tok(TRUE, src)
SeqNode(items) == [t |-> "seq", items |-> items, cmt |-> ""]
CSeqNode(cmt, items) == [t |-> "seq", items |-> items, cmt |-> cmt]
MapNode(items) == [t |-> "ymap", items |-> items]
Item(key, val) == [key |-> key, val |-> val, cmt |-> ""]
CItem(cmt, key, val) == [key |-> key, val |-> val, cmt |-> cmt]
Text(root) == [errors |-> FALSE, root |-> root]
BadText(root) == [errors |-> TRUE, root |-> root]

\* the source of a node made by createNode
NoSrc == "<none>"

\* plain scalars the core schema resolves to integers
NumStrs == {"0", "5", "12", "2000", "2006", "2026"}

\* core schema resolution of a scalar token
ResolveTok(q, src) ==
  IF q THEN Str(src)
  ELSE CASE src \in {"", "~", "null"} -> Null
         [] src \in {"true", "false"} -> Bool(src)
         [] src \in NumStrs -> Num(src)
         [] OTHER -> Str(src)

Scalar(q, src, val) == [t |-> "sc", q |-> q, src |-> src, val |-> val]

RECURSIVE Compose(_)
\* text node -> Document node
Compose(n) ==
  CASE n.t = "tok" -> Scalar(n.q, n.src, ResolveTok(n.q, n.src))
    [] n.t = "seq" ->
         [n EXCEPT !.items = [i \in 1..Len(n.items) |-> Compose(n.items[i])]]
    [] n.t = "ymap" ->
         [n EXCEPT !.items = [i \in 1..Len(n.items) |->
            [n.items[i] EXCEPT !.val = Compose(n.items[i].val)]]]
    [] OTHER -> n

NoDoc == [t |-> "nodoc"]

\* parseDocument(text): never throws, errors are kept on the Document
parseDocument(text) ==
  [t |-> "doc", errors |-> text.errors, contents |-> Compose(text.root)]

LastIndex(items, k) ==
  CHOOSE i \in 1..Len(items) :
    /\ items[i].key = k
    /\ \A j \in (i + 1)..Len(items) : items[j].key # k

RECURSIVE NodeToJS(_)
\* Node.toJS: of a repeated key the last pair wins
NodeToJS(n) ==
  CASE n.t = "sc" -> n.val
    [] n.t = "seq" -> List([i \in 1..Len(n.items) |-> NodeToJS(n.items[i])])
    [] n.t = "ymap" ->
         Map([k \in {n.items[i].key : i \in 1..Len(n.items)} |->
               NodeToJS(n.items[LastIndex(n.items, k)].val)])
    [] OTHER -> Null

\* Document.toJS()
toJS(doc) == NodeToJS(doc.contents)

\* a plain scalar must read back as the same string
NeedsQuote(s) == ResolveTok(FALSE, s) # Str(s)

\* stringify of a scalar node: the token of its typed value
EmitScalar(n) ==
  CASE n.val.t = "str" ->
         IF n.q \/ NeedsQuote(n.val.s) THEN Quoted(n.val.s)
         ELSE Plain(n.val.s)
    [] n.val.t = "num" -> Plain(n.val.n)
    [] n.val.t = "bool" -> Plain(n.val.b)
    [] OTHER ->
         IF ~n.q /\ n.src \in {"", "~", "null"} THEN Plain(n.src)
         ELSE Plain("null")

RECURSIVE Emit(_)
\* Document node -> text node
Emit(n) ==
  CASE n.t = "sc" -> EmitScalar(n)
    [] n.t = "seq" ->
         [n EXCEPT !.items = [i \in 1..Len(n.items) |-> Emit(n.items[i])]]
    [] n.t = "ymap" ->
         [n EXCEPT !.items = [i \in 1..Len(n.items) |->
            [n.items[i] EXCEPT !.val = Emit(n.items[i].val)]]]
    [] OTHER -> Plain("null")

\* Document.toString() throws on a Document with errors
toStringThrows(doc) == doc.errors

toString(doc) == Text(Emit(doc.contents))

\* the iteration order of Object.entries over the model's property names
AllKeys ==
  <<"author", "email", "description", "subtitle", "banner", "avatar", "toc",
    "menu", "mainSections", "yearFormat", "monthFormat", "dateFormat",
    "timeFormat", "footer", "since", "powered", "count", "busuanzi", "icon",
    "url", "rotate", "mask", "sidebar", "social", "widgets", "reimu_cursor",
    "dark_mode", "enable", "auto", "comment", "default", "algolia_search",
    "preloader", "animation", "firework", "article_copyright", "sponsor",
    "share", "custom", "cover", "name", "0", "1", "2", "3">>

KeySeq(m) == SelectSeq(AllKeys, LAMBDA k : k \in DOMAIN m)

RECURSIVE createNode(_)
\* Document.createNode(value); a property whose value is undefined is
\* left out (keepUndefined is off)
createNode(v) ==
  CASE v.t = "list" ->
         SeqNode([i \in 1..Len(v.l) |-> createNode(v.l[i])])
    [] v.t = "map" ->
         LET ks == SelectSeq(KeySeq(v.m), LAMBDA k : v.m[k].t # "undef") IN
         MapNode([i \in 1..Len(ks) |-> Item(ks[i], createNode(v.m[ks[i]]))])
    [] v.t = "undef" -> Scalar(FALSE, NoSrc, Null)
    [] OTHER -> Scalar(FALSE, NoSrc, v)

\* stringify(config, options): the text of a fresh node tree
stringify(v) == Text(Emit(createNode(v)))

\* ------------------------------------------------------------------------
\* YamlService.updateDocument
\* ------------------------------------------------------------------------
\* node.items.find(item => item.key.value === key): the first such pair,
\* 0 when there is none
FindPair(items, k) ==
  IF \E i \in 1..Len(items) : items[i].key = k
  THEN CHOOSE i \in 1..Len(items) :
         /\ items[i].key = k
         /\ \A j \in 1..(i - 1) : items[j].key # k
  ELSE 0

RECURSIVE updateDocument(_, _)

UpdatePairValueFresh(old, value) == createNode(value)

\* the value node of an existing pair after its loop iteration
UpdatePairValue(old, value) ==
  CASE value.t = "map" ->
         IF old.t = "ymap" THEN updateDocument(old, value)
         ELSE createNode(value)
    [] value.t = "list" -> createNode(value)
    [] OTHER ->
         IF old.t = "sc" THEN [old EXCEPT !.val = value]
         ELSE createNode(value)

\* the pairs after the loop over Object.entries(config): each entry is
\* visited once and touches only the pair of its own key, so the pair found
\* for a key gets its new value and the keys not found are appended in the
\* order of the entries
UpdateEntries(items, m) ==
  LET found == {items[i].key : i \in 1..Len(items)}
      added == SelectSeq(KeySeq(m), LAMBDA k : k \notin found)
  IN [i \in 1..Len(items) |->
        IF items[i].key \in DOMAIN m /\ FindPair(items, items[i].key) = i
        THEN [items[i] EXCEPT !.val = UpdatePairValue(@, m[items[i].key])]
        ELSE items[i]]
     \o [i \in 1..Len(added) |-> Item(added[i], createNode(m[added[i]]))]

\* updateDocument(node, config): the node after the in-place update;
\* a node that is not a map is left alone
updateDocument(node, config) ==
  IF node.t # "ymap" THEN node
  ELSE [node EXCEPT !.items = UpdateEntries(node.items, config.m)]

\* ------------------------------------------------------------------------
\* YamlService.parse / serialize
\* ------------------------------------------------------------------------
\* the value parse(yamlContent) returns; the Document it caches is
\* parseDocument(yamlContent)
parse(text) == applyDefaults(toJS(parseDocument(text)))

\* the Document after serialize(config): updated in place when cached
DocAfterSerialize(doc, config) ==
  IF doc = NoDoc THEN NoDoc
  ELSE [doc EXCEPT !.contents = updateDocument(doc.contents, config)]

\* serialize(config) throws exactly when the cached Document has errors
serializeThrows(doc) == doc # NoDoc /\ toStringThrows(doc)

serializeFresh(doc, config) == stringify(config)

\* the text serialize(config) returns
serialize(doc, config) ==
  IF doc # NoDoc THEN toString(DocAfterSerialize(doc, config))
  ELSE stringify(config)

\* ------------------------------------------------------------------------
\* ConfigService.mergeConfig
\* ------------------------------------------------------------------------
\* the result after the loop over Object.entries(updates): each entry is
\* visited once and assigns only its own key
MergeEntries(result, updates) ==
  LET assigned == {k \in DOMAIN updates : updates[k].t \notin {"null", "undef"}}
      currentValue(k) == IF k \in DOMAIN result THEN result[k] ELSE Undef
  IN Overlay(result,
       [key \in assigned |->
          IF IsObject(updates[key]) /\ IsObject(currentValue(key))
          THEN Spread2(currentValue(key), updates[key])
          ELSE updates[key]])

MergeFromDefaults(current, updates) ==
  Map(MergeEntries(DEFAULT_CONFIG.m, updates.m))

mergeConfigFlat(current, updates) ==
  Map(Overlay(current.m,
        [k \in {j \in DOMAIN updates.m :
                  updates.m[j].t \notin {"null", "undef"}} |-> updates.m[k]]))

mergeConfig(current, updates) ==
  Map(MergeEntries(current.m, updates.m))

\* the object the caller passed as current, after mergeConfig returned:
\* every assignment of the loop is to result, the copy made first, or to a
\* fresh nested object, and current is only read
CurrentAfterMerge(current, updates) == current

\* ------------------------------------------------------------------------
\* State
\* ------------------------------------------------------------------------
VARIABLES
  blogPath,    \* settingsService.getBlogPath(): a root or NoPath
  params,      \* per root, the content of config/_default/params.yml
  backupDir,   \* per root, whether config/_default/backups exists
  backups,     \* per root and timestamp, the content of the backup file
  clock,       \* the wall clock, in seconds
  document,    \* yamlService.document
  calls,       \* the ConfigService calls: position, locals and result
  ncalls,      \* how many calls have been started
  yop,         \* the last direct YamlService operation
  yval,        \* the value last given to serialize
  ytext,       \* the text last given to parse or produced by serialize
  yres,        \* the value last returned by parse
  ymerged,     \* the value last returned by mergeConfig
  tree,        \* per root, what the path names and whether hugo.toml exists
  settingsFile, \* the content of settings.json
  lastUpdated, \* settingsService.getLastUpdated()
  other,       \* a second SettingsService over the same directory
  sres,        \* the last SettingsService or PathValidator call and result
  shist,       \* history: the path last stored, whether every save completed
  postsDir,    \* per root, whether content/post exists
  posts,       \* per root and filename, the content of the post file
  pcalls       \* the createPost calls: position, locals and result

vars ==
  <<blogPath, params, backupDir, backups, clock, document, calls, ncalls,
    yop, yval, ytext, yres, ymerged, tree, settingsFile, lastUpdated, other, sres,
    shist, postsDir, posts, pcalls>>

fsVars == <<params, backupDir, backups>>
yamlIO == <<yop, yval, ytext, yres, ymerged>>
settingsVars == <<tree, settingsFile, lastUpdated, other, sres, shist>>
postVars == <<postsDir, posts, pcalls>>

\* bounds of the model
MaxCalls == 2
MaxClock == 1

Roots == {"r1", "r2"}
NoPath == "null"
Calls == {"c1", "c2"}
Stamps == 0..MaxClock

NoFile == [t |-> "enoent"]
NoBackupPath == [root |-> NoPath, ts |-> -1]
NoResult == [done |-> FALSE, success |-> FALSE, error |-> "",
             backupPath |-> NoBackupPath, config |-> Undef]

E_NotConfigured == "Blog path not configured"
E_NotFound == "params.yml not found"
E_Backup == "Failed to create backup: "
E_Read == "Failed to read config: "
E_Update == "Failed to update config: "

Ok(backupPath, config) ==
  [done |-> TRUE, success |-> TRUE, error |-> "",
   backupPath |-> backupPath, config |-> config]
FailNoMessage(error) ==
  [done |-> TRUE, success |-> FALSE, error |-> "",
   backupPath |-> NoBackupPath, config |-> Undef]

Fail(error) ==
  [done |-> TRUE, success |-> FALSE, error |-> error,
   backupPath |-> NoBackupPath, config |-> Undef]

\* ------------------------------------------------------------------------
\* configRoutes: the response GET and PUT /api/config send for the result
\* of readConfig and updateConfig
\* ------------------------------------------------------------------------
NoResponse == [status |-> 0, success |-> FALSE, error |-> ""]
Response(status, success, error) ==
  [status |-> status, success |-> success, error |-> error]

E_BodyRequired == "Configuration object is required"
E_ReadDefault == "Failed to read configuration"
E_UpdateDefault == "Failed to update configuration"

\* router.get('/'): the catch branch answers a rejected readConfig
GetConfig(res) ==
  IF ~res.done THEN Response(500, FALSE, E_Read)
  ELSE IF res.success /\ Truthy(res.config) THEN Response(200, TRUE, "")
  ELSE Response(400, FALSE,
                IF res.error # "" THEN res.error ELSE E_ReadDefault)

\* router.put('/') once the body is accepted
PutConfig(res) ==
  IF ~res.done THEN Response(500, FALSE, E_Update)
  ELSE IF res.success THEN Response(200, TRUE, "")
  ELSE Response(400, FALSE,
                IF res.error # "" THEN res.error ELSE E_UpdateDefault)

Respond(op, res) ==
  CASE op = "read" -> GetConfig(res)
    [] op = "update" -> PutConfig(res)
    [] OTHER -> NoResponse

IdleCall ==
  [op |-> "none", pc |-> "idle", path |-> NoPath, rpath |-> NoPath,
   updates |-> EmptyMap, backupPath |-> NoBackupPath, text |-> NoFile,
   res |-> NoResult,
   \* the response of the route that made the call
   http |-> NoResponse,
   \* history: the content of params.yml when the call started, whether the
   \* call's own createBackup has returned success, whether the call has
   \* written params.yml, and the steps it has executed
   pre |-> NoFile, backedUp |-> FALSE, wrote |-> FALSE, steps |-> <<>>,
   \* history: the second in which the backup name was made, the content
   \* copyFile copied, the content readFile returned and the content
   \* params.yml held when the call's writeFile replaced it
   issued |-> -1, copied |-> NoFile, seen |-> NoFile, over |-> NoFile]

getParamsPathFallback == IF blogPath = NoPath THEN "r1" ELSE blogPath

\* getParamsPath() / getBackupDir(): the root they are built from
getParamsPath == blogPath

\* fs.existsSync(paramsPath)
ParamsExists(r) == params[r] # NoFile

AllIdle == \A c \in Calls : calls[c].pc \in {"idle", "done"}

\* ------------------------------------------------------------------------
\* ConfigService: the synchronous prefixes of createBackup and readConfig
\* ------------------------------------------------------------------------
Finish(rec, res) ==
  [rec EXCEPT !.pc = "done", !.res = res, !.http = Respond(rec.op, res)]

\* readConfig() up to its await of readFile
BeginRead(rec) ==
  LET r == [rec EXCEPT !.steps = Append(@, "read")] IN
  IF getParamsPath = NoPath THEN Finish(r, Fail(E_NotConfigured))
  ELSE IF ~ParamsExists(getParamsPath) THEN Finish(r, Fail(E_NotFound))
  ELSE [r EXCEPT !.pc = "read", !.rpath = getParamsPath]

BackupFailureIgnored(rec, error) ==
  IF rec.op = "update" THEN BeginRead(rec) ELSE Finish(rec, Fail(error))

BackupFailedRetry(rec, error) ==
  IF rec.pc = "copy" THEN [rec EXCEPT !.pc = "mkdir"]
  ELSE Finish(rec, Fail(error))

\* createBackup returns a failure, which updateConfig returns as its own
BackupFailed(rec, error) == Finish(rec, Fail(error))

BackupReserialized(rec) == toString(parseDocument(params[rec.path]))

\* what copyFile puts at backupPath: the bytes of params.yml
BackupContent(rec) == params[rec.path]

SerializeFailureSwallowed(rec) == Finish(rec, Ok(rec.backupPath, Undef))

\* serialize throws inside updateConfig's try block
SerializeFailed(rec) == Finish(rec, Fail(E_Update))

BackupStampFree(rec) ==
  IF backups[rec.path][clock] = NoFile
       \/ \A ts \in DOMAIN backups[rec.path] : backups[rec.path][ts] # NoFile
  THEN clock
  ELSE CHOOSE ts \in DOMAIN backups[rec.path] : backups[rec.path][ts] = NoFile

\* generateBackupFilename(): new Date().toISOString() cut to the second
BackupStamp(rec) == clock

\* generateBackupFilename() and the start of copyFile
BeginCopy(rec) ==
  [rec EXCEPT !.pc = "copy", !.issued = clock,
              !.backupPath = [root |-> rec.path, ts |-> BackupStamp(rec)]]

BeginBackupMkdirFirst(rec) ==
  LET r == [rec EXCEPT !.steps = Append(@, "backup")] IN
  IF getParamsPath = NoPath THEN BackupFailed(r, E_NotConfigured)
  ELSE IF ~backupDir[rec.path] THEN [r EXCEPT !.pc = "mkdir"]
  ELSE IF ~ParamsExists(rec.path) THEN BackupFailed(r, E_NotFound)
  ELSE BeginCopy(r)

\* createBackup() up to its first await
BeginBackup(rec) ==
  LET r == [rec EXCEPT !.steps = Append(@, "backup")] IN
  IF getParamsPath = NoPath THEN BackupFailed(r, E_NotConfigured)
  ELSE IF ~ParamsExists(rec.path) THEN BackupFailed(r, E_NotFound)
  ELSE IF ~backupDir[rec.path] THEN [r EXCEPT !.pc = "mkdir"]
  ELSE BeginCopy(r)

NewCall(op, updates) ==
  [IdleCall EXCEPT !.op = op, !.updates = updates, !.path = getParamsPath,
     !.pre = IF getParamsPath = NoPath THEN NoFile ELSE params[getParamsPath]]

CanStart(c) == calls[c].pc \in {"idle", "done"} /\ ncalls < MaxCalls

\* ------------------------------------------------------------------------
\* ConfigService operations, one action per run between suspension points
\* ------------------------------------------------------------------------
\* updateConfig(updates) up to the first await inside createBackup
StartUpdate(c, u) ==
  /\ CanStart(c)
  /\ ncalls' = ncalls + 1
  /\ calls' = [calls EXCEPT ![c] =
        IF getParamsPath = NoPath
        THEN Finish(NewCall("update", u), Fail(E_NotConfigured))
        ELSE BeginBackup(NewCall("update", u))]
  /\ UNCHANGED <<blogPath, fsVars, clock, document, yamlIO,
               settingsVars, postVars>>

StartReadWithBackup(c) ==
  /\ CanStart(c)
  /\ ncalls' = ncalls + 1
  /\ calls' = [calls EXCEPT ![c] = BeginBackup(NewCall("read", EmptyMap))]
  /\ UNCHANGED <<blogPath, fsVars, clock, document, yamlIO,
               settingsVars, postVars>>

\* readConfig() up to its await of readFile
StartRead(c) ==
  /\ CanStart(c)
  /\ ncalls' = ncalls + 1
  /\ calls' = [calls EXCEPT ![c] = BeginRead(NewCall("read", EmptyMap))]
  /\ UNCHANGED <<blogPath, fsVars, clock, document, yamlIO,
               settingsVars, postVars>>

\* PUT /api/config with a body that has no config object
PutInvalid(c) ==
  /\ CanStart(c)
  /\ ncalls' = ncalls + 1
  /\ calls' = [calls EXCEPT ![c] =
        [IdleCall EXCEPT !.op = "put", !.pc = "done",
                         !.http = Response(400, FALSE, E_BodyRequired)]]
  /\ UNCHANGED <<blogPath, fsVars, clock, document, yamlIO,
               settingsVars, postVars>>

\* createBackup() called on its own, up to its first await
StartBackup(c) ==
  /\ CanStart(c)
  /\ ncalls' = ncalls + 1
  /\ calls' = [calls EXCEPT ![c] = BeginBackup(NewCall("backup", EmptyMap))]
  /\ UNCHANGED <<blogPath, fsVars, clock, document, yamlIO,
               settingsVars, postVars>>

\* fs.promises.mkdir(backupDir, {recursive: true}) completes
Mkdir(c, ok) ==
  LET rec == calls[c] IN
  /\ rec.pc = "mkdir"
  /\ IF ok
     THEN /\ backupDir' = [backupDir EXCEPT ![rec.path] = TRUE]
          /\ calls' = [calls EXCEPT ![c] = BeginCopy(rec)]
     ELSE /\ backupDir' = backupDir
          /\ calls' = [calls EXCEPT ![c] = BackupFailed(rec, E_Backup)]
  /\ UNCHANGED <<blogPath, params, backups, clock, document, ncalls, yamlIO,
               settingsVars, postVars>>

\* fs.promises.copyFile(paramsPath, backupPath) completes; createBackup
\* returns and updateConfig goes on to readConfig
Copy(c, ok) ==
  LET rec == calls[c]
      bp == rec.backupPath
  IN
  /\ rec.pc = "copy"
  /\ IF ok /\ ParamsExists(rec.path)
     THEN /\ backups' = [backups EXCEPT ![bp.root][bp.ts] = BackupContent(rec)]
          /\ calls' = [calls EXCEPT ![c] =
               LET r == [rec EXCEPT !.backedUp = TRUE,
                                    !.copied = BackupContent(rec)] IN
               IF rec.op = "backup" THEN Finish(r, Ok(bp, Undef))
               ELSE BeginRead(r)]
     ELSE /\ backups' = backups
          /\ calls' = [calls EXCEPT ![c] = BackupFailed(rec, E_Backup)]
  /\ UNCHANGED <<blogPath, params, backupDir, clock, document, ncalls, yamlIO,
               settingsVars, postVars>>

DocumentStale(parsed) == IF document = NoDoc THEN parsed ELSE document

\* this.document when updateConfig reaches serialize: the Document that
\* readConfig's parse cached earlier in the same run
DocumentAtSerialize(parsed) == parsed

\* fs.promises.readFile completes; readConfig parses and returns, and
\* updateConfig merges, serializes and starts writeFile in the same run
Read(c, ok) ==
  LET rec == calls[c] IN
  /\ rec.pc = "read"
  /\ IF ok /\ ParamsExists(rec.rpath)
     THEN LET content == params[rec.rpath]
              doc == parseDocument(content)
              config == parse(content)
              merged == mergeConfig(config, rec.updates)
          IN
          IF rec.op = "read"
          THEN /\ document' = doc
               /\ calls' = [calls EXCEPT ![c] =
                    Finish(rec, Ok(NoBackupPath, config))]
          ELSE /\ document' = DocAfterSerialize(DocumentAtSerialize(doc), merged)
               /\ calls' = [calls EXCEPT ![c] =
                    LET r == [rec EXCEPT
                                !.seen = content,
                                !.steps = @ \o <<"merge", "serialize">>] IN
                    IF serializeThrows(DocumentAtSerialize(doc))
                    THEN SerializeFailed(r)
                    ELSE [r EXCEPT !.pc = "write",
                                   !.text = serialize(DocumentAtSerialize(doc),
                                                      merged),
                                   !.steps = Append(@, "write")]]
     ELSE /\ document' = document
          /\ calls' = [calls EXCEPT ![c] = Finish(rec, Fail(E_Read))]
  /\ UNCHANGED <<blogPath, fsVars, clock, ncalls, yamlIO,
               settingsVars, postVars>>

WrittenTextRemerged(rec) ==
  IF ~ParamsExists(rec.path) \/ params[rec.path].errors THEN rec.text
  ELSE serialize(parseDocument(params[rec.path]),
                 mergeConfig(parse(params[rec.path]), rec.updates))

\* the yamlContent given to writeFile: the text serialized before the await
WrittenText(rec) == rec.text

\* what a writeFile can do: replace the content, fail before touching the
\* file, or fail after truncating it
WriteOutcomes == {"ok", "failed", "torn"}

\* fs.promises.writeFile(paramsPath, yamlContent) completes
Write(c, outcome) ==
  LET rec == calls[c] IN
  /\ rec.pc = "write"
  /\ CASE outcome = "ok" ->
            /\ params' = [params EXCEPT ![rec.path] = WrittenText(rec)]
            /\ calls' = [calls EXCEPT ![c] =
                 Finish([rec EXCEPT !.wrote = TRUE, !.over = params[rec.path]],
                        Ok(rec.backupPath, Undef))]
       [] outcome = "torn" ->
            /\ params' = [params EXCEPT ![rec.path] = Text(NoNode)]
            /\ calls' = [calls EXCEPT ![c] =
                 Finish([rec EXCEPT !.wrote = TRUE, !.over = params[rec.path]],
                        Fail(E_Update))]
       [] OTHER ->
            /\ params' = params
            /\ calls' = [calls EXCEPT ![c] = Finish(rec, Fail(E_Update))]
  /\ UNCHANGED <<blogPath, backupDir, backups, clock, document, ncalls, yamlIO,
               settingsVars, postVars>>

\* ------------------------------------------------------------------------
\* The environment of the service
\* ------------------------------------------------------------------------
\* a second passes
Tick ==
  /\ clock < MaxClock
  /\ clock' = clock + 1
  /\ UNCHANGED <<blogPath, fsVars, document, calls, ncalls, yamlIO,
               settingsVars, postVars>>

\* settingsService.setBlogPath(r) with a path that validates
SetBlogPath(r) ==
  /\ ParamsExists(r)
  /\ blogPath' = r
  /\ UNCHANGED <<fsVars, clock, document, calls, ncalls, yamlIO,
               settingsVars, postVars>>

\* settingsService.clearBlogPath()
ClearBlogPath ==
  /\ blogPath # NoPath
  /\ blogPath' = NoPath
  /\ UNCHANGED <<fsVars, clock, document, calls, ncalls, yamlIO,
               settingsVars, postVars>>

\* params.yml is removed from outside the service
Unlink(r) ==
  /\ ParamsExists(r)
  /\ params' = [params EXCEPT ![r] = NoFile]
  /\ UNCHANGED <<blogPath, backupDir, backups, clock, document, calls,
                 ncalls, yamlIO,
               settingsVars, postVars>>

\* yamlService.reset()
reset ==
  /\ document # NoDoc
  /\ document' = NoDoc
  /\ UNCHANGED <<blogPath, fsVars, clock, calls, ncalls, yamlIO,
               settingsVars, postVars>>

\* ------------------------------------------------------------------------
\* PathValidator
\* ------------------------------------------------------------------------
RequiredOnlyParams == <<"config/_default/params.yml">>

REQUIRED_FILES == <<"hugo.toml", "config/_default/params.yml">>

\* the paths callers pass: empty, blank, a root, a root with a trailing
\* separator, another root
RawPaths == {"", " ", "r1", "r1/", "r2"}

\* !blogPath || blogPath.trim() === ''
Blank(p) == p \in {"", " "}

\* path.resolve(blogPath)
resolve(p) == IF p = "r1/" THEN "r1" ELSE p

\* what a path can name
Kinds == {"none", "file", "dir"}

\* fileExists(path.join(normalizedPath, relativePath))
fileExists(r, f) ==
  /\ tree[r].kind = "dir"
  /\ IF f = "hugo.toml" THEN tree[r].hugo ELSE ParamsExists(r)

Problem(msg, arg) == [msg |-> msg, arg |-> arg]

Validation(valid, errors, missingFiles) ==
  [valid |-> valid, errors |-> errors, missingFiles |-> missingFiles]

NoValidation == Validation(FALSE, <<>>, <<>>)

\* pathValidator.validate(blogPath)
validate(p) ==
  IF Blank(p)
  THEN Validation(FALSE, <<Problem("Blog path is empty", "")>>, <<>>)
  ELSE
    LET n == resolve(p) IN
    IF tree[n].kind = "none"
    THEN Validation(FALSE, <<Problem("Path does not exist", n)>>, <<>>)
    ELSE IF tree[n].kind # "dir"
    THEN Validation(FALSE, <<Problem("Path is not a directory", n)>>, <<>>)
    ELSE
      LET missing == SelectSeq(REQUIRED_FILES, LAMBDA f : ~fileExists(n, f))
      IN Validation(Len(missing) = 0,
                    [i \in 1..Len(missing) |->
                       Problem("Missing required file", missing[i])],
                    missing)

\* ------------------------------------------------------------------------
\* SettingsService: settings.json and the settings in memory
\* ------------------------------------------------------------------------
NoTime == -1

\* JSON tokens: the literal null, a string, the ISO string of an instant
JsonNull == [q |-> FALSE, s |-> "null", n |-> 0]
JsonString(s) == [q |-> TRUE, s |-> s, n |-> 0]
JsonTime(n) == [q |-> TRUE, s |-> "iso", n |-> n]

\* JSON.stringify(this.settings, null, 2)
stringifySettings(bp, lu) ==
  [t |-> "json",
   blogPath |-> IF bp = NoPath THEN JsonNull ELSE JsonString(bp),
   lastUpdated |-> IF lu = NoTime THEN JsonNull ELSE JsonTime(lu)]

\* a settings.json that a failed writeFile left truncated
TornFile == [t |-> "torn"]

DEFAULT_SETTINGS == [blogPath |-> NoPath, lastUpdated |-> NoTime]

loadDefaultsOnly(file) == DEFAULT_SETTINGS

\* loadSettings(): the settings after it, for an instance still holding
\* the defaults
loadSettings(file) ==
  IF file = NoFile \/ file.t # "json" THEN DEFAULT_SETTINGS
  ELSE [blogPath |-> IF file.blogPath.q THEN file.blogPath.s ELSE NoPath,
        lastUpdated |->
          IF file.lastUpdated.q THEN file.lastUpdated.n ELSE NoTime]

\* saveSettings(): settings.json after writeFile ended as outcome says
saveSettings(bp, lu, outcome) ==
  CASE outcome = "ok" -> stringifySettings(bp, lu)
    [] outcome = "torn" -> TornFile
    [] OTHER -> settingsFile

NotLoaded == [loaded |-> FALSE, blogPath |-> NoPath, lastUpdated |-> NoTime]

SettingsCall(op, p, v, rejected) ==
  [op |-> op, path |-> p, validation |-> v, rejected |-> rejected]

StoreAlways(v) == TRUE

\* if (validation.valid)
ShouldStore(v) == v.valid

\* settingsService.setBlogPath(p): validation, assignment and save, with
\* nothing else running in between; a failed save rejects the call
setBlogPath(p, outcome) ==
  LET v == validate(p) IN
  /\ IF ShouldStore(v)
     THEN /\ blogPath' = resolve(p)
          /\ lastUpdated' = clock
          /\ settingsFile' = saveSettings(resolve(p), clock, outcome)
          /\ sres' = SettingsCall("set", p, v, outcome # "ok")
          /\ shist' = [lastSet |-> resolve(p), saved |-> outcome = "ok"]
     ELSE /\ outcome = "ok"
          /\ sres' = SettingsCall("set", p, v, FALSE)
          /\ UNCHANGED <<blogPath, lastUpdated, settingsFile, shist>>
  /\ UNCHANGED <<tree, other, fsVars, clock, document, calls, ncalls, yamlIO,
                 postVars>>

\* settingsService.clearBlogPath()
clearBlogPath(outcome) ==
  /\ blogPath' = NoPath
  /\ lastUpdated' = clock
  /\ settingsFile' = saveSettings(NoPath, clock, outcome)
  /\ sres' = SettingsCall("clear", "", NoValidation, outcome # "ok")
  /\ shist' = [lastSet |-> NoPath, saved |-> outcome = "ok"]
  /\ UNCHANGED <<tree, other, fsVars, clock, document, calls, ncalls, yamlIO,
                 postVars>>

\* new SettingsService(settingsDir) followed by initialize()
initialize ==
  /\ other' = [loaded |-> TRUE,
               blogPath |-> loadSettings(settingsFile).blogPath,
               lastUpdated |-> loadSettings(settingsFile).lastUpdated]
  /\ sres' = SettingsCall("initialize", "", NoValidation, FALSE)
  /\ UNCHANGED <<tree, settingsFile, lastUpdated, shist, blogPath, fsVars,
                 clock, document, calls, ncalls, yamlIO, postVars>>

\* pathValidator.validate(p) called on its own
Validate(p) ==
  /\ sres' = SettingsCall("validate", p, validate(p), FALSE)
  /\ UNCHANGED <<tree, settingsFile, lastUpdated, other, shist, blogPath,
                 fsVars, clock, document, calls, ncalls, yamlIO, postVars>>

\* ------------------------------------------------------------------------
\* PostService: titles and filenames are sequences of characters
\* ------------------------------------------------------------------------
UNTITLED == <<"u", "n", "t", "i", "t", "l", "e", "d">>

\* /\s/
IsSpace(ch) == ch \in {" "}

\* /[\u4e00-\u9fa5]/; U4F60 is mapped by pinyinMap, U9F99 is not
IsChinese(ch) == ch \in {"U4F60", "U9F99"}

\* /\w/
IsWord(ch) == ch \in {"H", "h", "i", "I", "n", "_", "0", "1"}

\* String.prototype.toLowerCase, a character at a time
toLowerCase(ch) ==
  CASE ch = "H" -> "h"
    [] ch = "I" -> "i"
    [] OTHER -> ch

\* pinyinMap
pinyinMap(ch) == IF ch = "U4F60" THEN <<"n", "i">> ELSE <<>>

\* String.prototype.trim
trim(s) ==
  LET inner == {i \in 1..Len(s) : ~IsSpace(s[i])} IN
  IF inner = {} THEN <<>>
  ELSE LET a == CHOOSE i \in inner : \A j \in inner : i <= j
           b == CHOOSE i \in inner : \A j \in inner : j <= i
       IN SubSeq(s, a, b)

\* s.replace(/[set]+/g, with): each run of characters of the set becomes
\* with ("" removes the run)
ReplaceRuns(s, set, with) ==
  LET marked == [i \in 1..Len(s) |->
                   IF s[i] \notin set THEN s[i]
                   ELSE IF i > 1 /\ s[i - 1] \in set THEN ""
                   ELSE with]
  IN SelectSeq(marked, LAMBDA ch : ch # "")

RECURSIVE convertChineseToPinyin(_)
\* convertChineseToPinyin(text)
convertChineseToPinyin(text) ==
  IF text = <<>> THEN <<>>
  ELSE LET ch == Head(text)
           out == IF pinyinMap(ch) # <<>> THEN pinyinMap(ch)
                  ELSE IF IsChinese(ch) THEN <<>>
                  ELSE <<ch>>
       IN out \o convertChineseToPinyin(Tail(text))

\* /^-+|-+$/g removed
StripHyphens(s) ==
  LET inner == {i \in 1..Len(s) : s[i] # "-"} IN
  IF inner = {} THEN <<>>
  ELSE LET a == CHOOSE i \in inner : \A j \in inner : i <= j
           b == CHOOSE i \in inner : \A j \in inner : j <= i
       IN SubSeq(s, a, b)

sanitizeKeepCase(title) ==
  IF title = <<>> THEN UNTITLED ELSE title

\* sanitizeFilename(title)
sanitizeFilename(title) ==
  IF title = <<>> THEN UNTITLED
  ELSE
    LET lowered == [i \in 1..Len(trim(title)) |-> toLowerCase(trim(title)[i])]
        hyphened == ReplaceRuns(lowered, {" ", "_"}, "-")
        kept == SelectSeq(hyphened,
                  LAMBDA ch : IsWord(ch) \/ IsChinese(ch) \/ ch = "-")
        latin == convertChineseToPinyin(kept)
        safe == SelectSeq(latin,
                  LAMBDA ch : ch \in {"h", "i", "n", "0", "1", "-"})
        single == ReplaceRuns(safe, {"-"}, "-")
        result == StripHyphens(single)
    IN IF result = <<>> THEN UNTITLED ELSE result

\* sanitizeFilename(request.title) + '.md'
FilenameOf(title) == Append(sanitizeFilename(title), ".md")

\* generateFrontMatter(request) followed by a blank line
generateFrontMatter(request) ==
  [t |-> "post", title |-> request.title, date |-> request.date]

\* a post made outside the tool
ExistingPost == [t |-> "post", title |-> <<"o", "l", "d">>, date |-> "2024-01-01"]

\* a post file that a failed writeFile left truncated
TornPost == [t |-> "torn"]

Titles ==
  {<<"H", "i", "!">>, <<" ", "h", "I", " ">>, <<"U4F60", "_", "-", "i">>,
   <<"!", "U9F99">>, <<>>}

Requests == {[title |-> t, date |-> "2024-01-15"] : t \in Titles}

Filenames == {FilenameOf(t) : t \in Titles}

PostCalls == {"p1", "p2"}

E_NotSet == "Blog path not set"
E_Exists == "File already exists: "
E_IO == "filesystem error"

NoRequest == [title |-> <<>>, date |-> ""]
NoName == <<>>

PostOk(filename) ==
  [done |-> TRUE, success |-> TRUE, error |-> "", filePath |-> filename]
PostFail(error, filename) ==
  [done |-> TRUE, success |-> FALSE, error |-> error, filePath |-> filename]

IdlePost ==
  [pc |-> "idle", request |-> NoRequest, root |-> NoPath,
   filename |-> NoName, content |-> NoFile,
   res |-> [done |-> FALSE, success |-> FALSE, error |-> "",
            filePath |-> NoName]]

PostFinish(rec, res) == [rec EXCEPT !.pc = "done", !.res = res]

CheckSkipped(rec) ==
  [rec EXCEPT !.pc = "write",
              !.filename = FilenameOf(rec.request.title),
              !.content = generateFrontMatter(rec.request)]

\* createPost from the filename to the await of writeFile: the existence
\* check and the start of the write are in one run
CheckAndWrite(rec) ==
  LET filename == FilenameOf(rec.request.title)
      r == [rec EXCEPT !.filename = filename]
  IN IF posts[rec.root][filename] # NoFile
     THEN PostFinish(r, PostFail(E_Exists, filename))
     ELSE [r EXCEPT !.pc = "write",
                    !.content = generateFrontMatter(rec.request)]

\* createPost(request) up to its first await
StartPost(c, request) ==
  /\ pcalls[c].pc \in {"idle", "done"}
  /\ pcalls' = [pcalls EXCEPT ![c] =
       LET rec == [IdlePost EXCEPT !.request = request, !.root = blogPath] IN
       IF blogPath = NoPath THEN PostFinish(rec, PostFail(E_NotSet, NoName))
       ELSE IF ~postsDir[blogPath] THEN [rec EXCEPT !.pc = "mkdir"]
       ELSE CheckAndWrite(rec)]
  /\ UNCHANGED <<postsDir, posts, blogPath, fsVars, clock, document, calls,
                 ncalls, yamlIO, settingsVars>>

\* fs.promises.mkdir(postsPath, {recursive: true}) completes
PostMkdir(c, ok) ==
  LET rec == pcalls[c] IN
  /\ rec.pc = "mkdir"
  /\ IF ok
     THEN /\ postsDir' = [postsDir EXCEPT ![rec.root] = TRUE]
          /\ pcalls' = [pcalls EXCEPT ![c] = CheckAndWrite(rec)]
     ELSE /\ postsDir' = postsDir
          /\ pcalls' = [pcalls EXCEPT ![c] =
               PostFinish(rec, PostFail(E_IO, NoName))]
  /\ UNCHANGED <<posts, blogPath, fsVars, clock, document, calls, ncalls,
                 yamlIO, settingsVars>>

\* fs.promises.writeFile(filePath, content) completes
PostWrite(c, outcome) ==
  LET rec == pcalls[c] IN
  /\ rec.pc = "write"
  /\ CASE outcome = "ok" ->
            /\ posts' = [posts EXCEPT ![rec.root][rec.filename] = rec.content]
            /\ pcalls' = [pcalls EXCEPT ![c] =
                 PostFinish(rec, PostOk(rec.filename))]
       [] outcome = "torn" ->
            /\ posts' = [posts EXCEPT ![rec.root][rec.filename] = TornPost]
            /\ pcalls' = [pcalls EXCEPT ![c] =
                 PostFinish(rec, PostFail(E_IO, rec.filename))]
       [] OTHER ->
            /\ posts' = posts
            /\ pcalls' = [pcalls EXCEPT ![c] =
                 PostFinish(rec, PostFail(E_IO, rec.filename))]
  /\ UNCHANGED <<postsDir, blogPath, fsVars, clock, document, calls, ncalls,
                 yamlIO, settingsVars>>

\* ------------------------------------------------------------------------
\* Inputs
\* ------------------------------------------------------------------------
\* author: "A" / email: a@x.com
T_MIN ==
  Text(MapNode(<<Item("author", Quoted("A")), Item("email", Plain("a@x.com"))>>))

\* a commented file with a partial footer, a list and an unrecognized key
T_RICH ==
  Text(MapNode(<<CItem("# site", "author", Plain("A")),
                 Item("toc", Plain("false")),
                 CItem("# footer", "footer",
                       MapNode(<<Item("since", Plain("2000"))>>)),
                 Item("menu", SeqNode(<<Plain("home")>>)),
                 Item("custom", Plain("5"))>>))

\* an empty file
T_EMPTY == Text(NoNode)

\* a file whose content is one plain scalar
T_SCALAR == Text(Plain("A"))

\* malformed text: the parser reports errors and keeps what it could read
T_BAD == BadText(MapNode(<<Item("author", Plain("A"))>>))

\* groups given as scalars, and groups given without their enable field
T_ODD ==
  Text(MapNode(<<Item("reimu_cursor", Plain("5")),
                 Item("footer", MapNode(<<Item("icon", Plain("12"))>>)),
                 Item("comment", MapNode(<<Item("default", Plain("x"))>>))>>))

InitTexts == {T_MIN, T_RICH, T_EMPTY, T_SCALAR, T_BAD, T_ODD}

U_AUTHOR == Map([k \in {"author"} |-> Str("B")])
U_TOC ==
  Map([k \in {"toc", "menu", "email"} |->
        CASE k = "toc" -> False
          [] k = "menu" -> List(<<Str("12")>>)
          [] OTHER -> Undef])
U_FOOTER ==
  Map([k \in {"footer"} |-> Map([j \in {"powered"} |-> False])])
U_NEW ==
  Map([k \in {"custom", "author"} |->
        IF k = "custom" THEN Str("true") ELSE Null])

Updates == {U_AUTHOR, U_TOC, U_FOOTER, U_NEW}

\* ------------------------------------------------------------------------
\* Specification: one ConfigService call at a time, the environment acting
\* between calls
\* ------------------------------------------------------------------------
\* a SettingsService over an empty settings directory
InitSettingsState ==
  /\ settingsFile = NoFile
  /\ lastUpdated = NoTime
  /\ other = NotLoaded
  /\ sres = SettingsCall("none", "", NoValidation, FALSE)
  /\ shist = [lastSet |-> NoPath, saved |-> TRUE]

\* no content/post directory and no createPost call yet
InitPostState ==
  /\ postsDir = [r \in Roots |-> FALSE]
  /\ posts = [r \in Roots |-> [f \in Filenames |-> NoFile]]
  /\ pcalls = [c \in PostCalls |-> IdlePost]

Init ==
  /\ blogPath = NoPath
  /\ \E t \in InitTexts \cup {NoFile} :
       params = [r \in Roots |-> IF r = "r1" THEN t ELSE NoFile]
  /\ backupDir = [r \in Roots |-> FALSE]
  /\ backups = [r \in Roots |-> [ts \in Stamps |-> NoFile]]
  /\ clock = 0
  /\ document = NoDoc
  /\ calls = [c \in Calls |-> IdleCall]
  /\ ncalls = 0
  /\ yop = "none"
  /\ yval = Undef
  /\ ytext = NoFile
  /\ yres = Undef
  /\ ymerged = Undef
  /\ tree = [r \in Roots |-> [kind |-> "dir", hugo |-> TRUE]]
  /\ InitSettingsState
  /\ InitPostState

SeqCall == "c1"

Next ==
  \/ \E u \in Updates : AllIdle /\ StartUpdate(SeqCall, u)
  \/ AllIdle /\ StartRead(SeqCall)
  \/ AllIdle /\ StartBackup(SeqCall)
  \/ AllIdle /\ PutInvalid(SeqCall)
  \/ \E c \in Calls, ok \in BOOLEAN : Mkdir(c, ok)
  \/ \E c \in Calls, ok \in BOOLEAN : Copy(c, ok)
  \/ \E c \in Calls, ok \in BOOLEAN : Read(c, ok)
  \/ \E c \in Calls, o \in WriteOutcomes : Write(c, o)
  \/ Tick
  \/ \E r \in Roots : AllIdle /\ SetBlogPath(r)
  \/ AllIdle /\ ClearBlogPath
  \/ \E r \in Roots : AllIdle /\ Unlink(r)
  \/ AllIdle /\ reset

Spec == Init /\ [][Next]_vars

\* ------------------------------------------------------------------------
\* YamlService used directly (as its property tests do)
\* ------------------------------------------------------------------------
\* sources holding only the identity fields author and email
IdentityTokens == {Quoted("A"), Plain("a@x.com"), Quoted("12"), Quoted("")}

MinimalTexts ==
  {Text(MapNode(<<Item("author", a), Item("email", e)>>)) :
     a \in IdentityTokens, e \in IdentityTokens}

\* sources that supply nested groups in part
GroupTexts ==
  {Text(MapNode(<<Item(g, MapNode(<<Item("default", Plain("x"))>>))>>)) :
     g \in DefaultGroups \cup {"footer", "dark_mode"}}
  \cup
  {Text(MapNode(<<Item("footer",
       MapNode(<<Item("icon", MapNode(<<Item("url", Plain("u"))>>))>>))>>)),
   Text(MapNode(<<Item("dark_mode",
       MapNode(<<Item("enable", Plain("true"))>>))>>)),
   Text(MapNode(<<Item("reimu_cursor", Plain("false")),
                  Item("footer", Plain("0"))>>))}

\* sources with comment lines at the top level, inside a nested group and
\* among the items of a list
CommentedTexts ==
  {Text(MapNode(<<CItem("# site", "author", Plain("A")),
                  CItem("# layout", "footer",
                        MapNode(<<CItem("# year", "since", Plain("2000"))>>)),
                  Item("menu", CSeqNode("# pages", <<Plain("home")>>))>>)),
   Text(MapNode(<<CItem("# header", "author", Quoted("A")),
                  Item("toc", Plain("true"))>>))}

SourceTexts == InitTexts \cup MinimalTexts \cup GroupTexts \cup CommentedTexts

\* BlogConfig values: footer, footer.icon, reimu_cursor and dark_mode are
\* groups as their types say; strings include those that look like other
\* scalars; some fields are left undefined
StringValues == {Str(""), Str("A"), Str("12"), Str("true"), Str("null")}

FooterOf(u) ==
  Map([k \in {"since", "icon"} |->
        IF k = "since" THEN Num("2000")
        ELSE Map([j \in {"url", "rotate"} |-> IF j = "url" THEN u ELSE True])])

FooterValues ==
  {FooterOf(Str("")), FooterOf(Str("12")), Map([k \in {"powered"} |-> False])}

ExtraValues ==
  {Undef, Null, Str("~"), Num("5"), List(<<>>), EmptyMap,
   List(<<Map([k \in {"name", "url"} |->
                IF k = "name" THEN Str("home") ELSE Str("")])>>)}

ConfigValues ==
  {Map([k \in {"author", "social", "custom"} |->
         CASE k = "author" -> a
           [] k = "social" -> EmptyMap
           [] OTHER -> x]) :
     a \in StringValues, x \in ExtraValues}
  \cup
  {Map([k \in {"toc", "footer"} |-> IF k = "toc" THEN b ELSE f]) :
     b \in {True, False}, f \in FooterValues}
  \cup
  {Map([k \in {"menu", "cover", "reimu_cursor", "dark_mode"} |->
         CASE k = "menu" -> m
           [] k = "cover" -> c
           [] k = "reimu_cursor" -> Map([j \in {"enable"} |-> True])
           [] OTHER -> Map([j \in {"enable"} |-> Str("auto")])]) :
     m \in {List(<<>>), List(<<Str("12"), Str("x")>>)},
     c \in {True, Str("false"), Undef}}

\* yamlService.parse(text)
YParse(text) ==
  /\ document' = parseDocument(text)
  /\ yres' = parse(text)
  /\ ytext' = text
  /\ yop' = "parse"
  /\ yval' = Undef
  /\ UNCHANGED <<blogPath, fsVars, clock, calls, ncalls, ymerged,
               settingsVars, postVars>>

\* yamlService.serialize(v) that returns: with no Document cached, or
\* against the Document of the parse just made
YSerialize(v) ==
  /\ document = NoDoc \/ yop = "parse"
  /\ ~serializeThrows(document)
  /\ ytext' = serialize(document, v)
  /\ document' = DocAfterSerialize(document, v)
  /\ yval' = v
  /\ yop' = IF document = NoDoc THEN "stringify" ELSE "update"
  /\ yres' = Undef
  /\ UNCHANGED <<blogPath, fsVars, clock, calls, ncalls, ymerged,
               settingsVars, postVars>>

\* yamlService.parse of the text the last structure-free serialize produced
YParseOutput ==
  /\ yop = "stringify"
  /\ document' = parseDocument(ytext)
  /\ yres' = parse(ytext)
  /\ yop' = "roundtrip"
  /\ UNCHANGED <<blogPath, fsVars, clock, calls, ncalls, yval, ytext,
               ymerged, settingsVars, postVars>>

\* mergeConfig(current, u) with current the value parse just returned, as
\* updateConfig calls it
YMerge(u) ==
  /\ yop = "parse"
  /\ yres.t = "map"
  /\ ymerged' = mergeConfig(yres, u)
  /\ yres' = CurrentAfterMerge(yres, u)
  /\ yval' = u
  /\ yop' = "merge"
  /\ UNCHANGED <<blogPath, fsVars, clock, document, calls, ncalls, ytext,
                 settingsVars, postVars>>

NextYaml ==
  \/ \E t \in SourceTexts : YParse(t)
  \/ \E v \in ConfigValues : YSerialize(v)
  \/ YParseOutput
  \/ reset

InitYaml == Init /\ params = [r \in Roots |-> NoFile]

SpecYaml == InitYaml /\ [][NextYaml]_vars

\* ------------------------------------------------------------------------
\* mergeConfig over the values parse returns
\* ------------------------------------------------------------------------
\* a list where current has a group, a scalar where it has a group, groups
\* where it has a scalar, a list, an empty group or nothing, and a group
\* with a null sub-field
U_SHAPES ==
  Map([k \in {"footer", "dark_mode", "author", "menu", "social", "cover",
              "comment", "toc"} |->
        CASE k = "footer" -> List(<<Str("x")>>)
          [] k = "dark_mode" -> Str("auto")
          [] k = "author" -> Map([j \in {"name"} |-> Str("B")])
          [] k = "menu" -> Map([j \in {"0"} |-> Str("home")])
          [] k = "social" -> Map([j \in {"url"} |-> Str("u")])
          [] k = "cover" -> Map([j \in {"url"} |-> Str("u")])
          [] k = "comment" -> Map([j \in {"enable", "default"} |->
                                   IF j = "enable" THEN Null ELSE Undef])
          [] OTHER -> Null])

U_ICON ==
  Map([k \in {"footer", "reimu_cursor"} |->
        IF k = "footer"
        THEN Map([j \in {"icon"} |-> Map([i \in {"rotate"} |-> True])])
        ELSE EmptyMap])

MergeUpdates == Updates \cup {U_SHAPES, U_ICON, EmptyMap}

NextMerge ==
  \/ \E t \in SourceTexts : YParse(t)
  \/ \E u \in MergeUpdates : YMerge(u)

SpecMerge == InitYaml /\ [][NextMerge]_vars

\* ------------------------------------------------------------------------
\* updateConfig, one call at a time, over files that supply nested groups
\* in part and updates that name nested groups
\* ------------------------------------------------------------------------
InitGroups ==
  /\ blogPath = "r1"
  /\ \E t \in GroupTexts \cup CommentedTexts \cup {T_RICH, T_ODD} :
       params = [r \in Roots |-> IF r = "r1" THEN t ELSE NoFile]
  /\ backupDir = [r \in Roots |-> r = "r1"]
  /\ backups = [r \in Roots |-> [ts \in Stamps |-> NoFile]]
  /\ clock = 0
  /\ document = NoDoc
  /\ calls = [c \in Calls |-> IdleCall]
  /\ ncalls = 0
  /\ yop = "none"
  /\ yval = Undef
  /\ ytext = NoFile
  /\ yres = Undef
  /\ ymerged = Undef
  /\ tree = [r \in Roots |-> [kind |-> "dir", hugo |-> TRUE]]
  /\ InitSettingsState
  /\ InitPostState

NextGroups ==
  \/ \E u \in MergeUpdates : AllIdle /\ StartUpdate(SeqCall, u)
  \/ \E ok \in BOOLEAN : Copy(SeqCall, ok)
  \/ \E ok \in BOOLEAN : Read(SeqCall, ok)
  \/ \E o \in WriteOutcomes : Write(SeqCall, o)

SpecGroups == InitGroups /\ [][NextGroups]_vars

\* ------------------------------------------------------------------------
\* ConfigService calls that overlap: a second request arrives, or the root
\* path is set or cleared, while a call is suspended at a file I/O step
\* ------------------------------------------------------------------------
\* the params.yml of the second root
T_SECOND == Text(MapNode(<<Item("author", Plain("Z"))>>))

ConcUpdates == {U_AUTHOR, U_TOC}

InitConc ==
  /\ blogPath = "r1"
  /\ params = [r \in Roots |-> IF r = "r1" THEN T_RICH ELSE T_SECOND]
  /\ backupDir = [r \in Roots |-> r = "r2"]
  /\ backups = [r \in Roots |-> [ts \in Stamps |-> NoFile]]
  /\ clock = 0
  /\ document = NoDoc
  /\ calls = [c \in Calls |-> IdleCall]
  /\ ncalls = 0
  /\ yop = "none"
  /\ yval = Undef
  /\ ytext = NoFile
  /\ yres = Undef
  /\ ymerged = Undef
  /\ tree = [r \in Roots |-> [kind |-> "dir", hugo |-> TRUE]]
  /\ InitSettingsState
  /\ InitPostState

\* each request is made once, the second not before the first
Arrives(c) ==
  /\ calls[c].pc = "idle"
  /\ c # SeqCall => calls[SeqCall].pc # "idle"

NextConc ==
  \/ \E c \in Calls, u \in ConcUpdates : Arrives(c) /\ StartUpdate(c, u)
  \/ \E c \in Calls : Arrives(c) /\ StartRead(c)
  \/ \E c \in Calls, ok \in BOOLEAN : Mkdir(c, ok)
  \/ \E c \in Calls, ok \in BOOLEAN : Copy(c, ok)
  \/ \E c \in Calls, ok \in BOOLEAN : Read(c, ok)
  \/ \E c \in Calls, o \in WriteOutcomes : Write(c, o)
  \/ Tick
  \/ \E r \in Roots : SetBlogPath(r)
  \/ ClearBlogPath

SpecConc == InitConc /\ [][NextConc]_vars

\* ------------------------------------------------------------------------
\* Overlapping calls whose file I/O completes: every mkdir, copyFile,
\* readFile and writeFile that was started settles, with success or failure
\* ------------------------------------------------------------------------
IOCompletes(c) ==
  \/ \E ok \in BOOLEAN : Mkdir(c, ok)
  \/ \E ok \in BOOLEAN : Copy(c, ok)
  \/ \E ok \in BOOLEAN : Read(c, ok)
  \/ \E o \in WriteOutcomes : Write(c, o)

\* two requests, each a readConfig or an updateConfig, and clearBlogPath
\* at any moment
NextLive ==
  \/ \E c \in Calls, u \in ConcUpdates : Arrives(c) /\ StartUpdate(c, u)
  \/ \E c \in Calls : Arrives(c) /\ StartRead(c)
  \/ \E c \in Calls : IOCompletes(c)
  \/ ClearBlogPath

SpecLive ==
  InitConc /\ [][NextLive]_vars /\ \A c \in Calls : WF_vars(IOCompletes(c))

\* ------------------------------------------------------------------------
\* SettingsService and PathValidator, one call at a time
\* ------------------------------------------------------------------------
\* what a root can be: nothing, a regular file, or a directory with or
\* without hugo.toml
TreeEntries ==
  {[kind |-> "none", hugo |-> FALSE], [kind |-> "file", hugo |-> FALSE],
   [kind |-> "dir", hugo |-> FALSE], [kind |-> "dir", hugo |-> TRUE]}

InitSettings ==
  /\ blogPath = NoPath
  /\ tree \in [Roots -> TreeEntries]
  /\ params \in [Roots -> {NoFile, T_MIN}]
  /\ \A r \in Roots : params[r] # NoFile => tree[r].kind = "dir"
  /\ backupDir = [r \in Roots |-> FALSE]
  /\ backups = [r \in Roots |-> [ts \in Stamps |-> NoFile]]
  /\ clock = 0
  /\ document = NoDoc
  /\ calls = [c \in Calls |-> IdleCall]
  /\ ncalls = 0
  /\ yop = "none"
  /\ yval = Undef
  /\ ytext = NoFile
  /\ yres = Undef
  /\ ymerged = Undef
  /\ InitSettingsState
  /\ InitPostState

NextSettings ==
  \/ \E p \in RawPaths, o \in WriteOutcomes : setBlogPath(p, o)
  \/ \E o \in WriteOutcomes : clearBlogPath(o)
  \/ initialize
  \/ \E p \in RawPaths : Validate(p)
  \/ Tick

SpecSettings == InitSettings /\ [][NextSettings]_vars

\* ------------------------------------------------------------------------
\* PostService: createPost calls that may overlap
\* ------------------------------------------------------------------------
InitPosts ==
  /\ blogPath \in {NoPath, "r1"}
  /\ tree = [r \in Roots |-> [kind |-> "dir", hugo |-> TRUE]]
  /\ params = [r \in Roots |-> IF r = "r1" THEN T_MIN ELSE NoFile]
  /\ backupDir = [r \in Roots |-> FALSE]
  /\ backups = [r \in Roots |-> [ts \in Stamps |-> NoFile]]
  /\ clock = 0
  /\ document = NoDoc
  /\ calls = [c \in Calls |-> IdleCall]
  /\ ncalls = 0
  /\ yop = "none"
  /\ yval = Undef
  /\ ytext = NoFile
  /\ yres = Undef
  /\ ymerged = Undef
  /\ InitSettingsState
  /\ postsDir \in [Roots -> BOOLEAN]
  /\ \E e \in {NoFile, ExistingPost} :
       posts = [r \in Roots |-> [f \in Filenames |->
                  IF r = "r1" /\ postsDir[r] /\ f = FilenameOf(<<"H", "i", "!">>)
                  THEN e ELSE NoFile]]
  /\ pcalls = [c \in PostCalls |-> IdlePost]

NextPosts ==
  \/ \E c \in PostCalls, q \in Requests : StartPost(c, q)
  \/ \E c \in PostCalls, ok \in BOOLEAN : PostMkdir(c, ok)
  \/ \E c \in PostCalls, o \in WriteOutcomes : PostWrite(c, o)

SpecPosts == InitPosts /\ [][NextPosts]_vars

\* ------------------------------------------------------------------------
\* Properties of ConfigService (specification Spec)
\* ------------------------------------------------------------------------
BackupAt(bp) == IF bp = NoBackupPath THEN NoFile ELSE backups[bp.root][bp.ts]

\* c takes a step of an updateConfig call
UpdateStep(c) == calls'[c] # calls[c] /\ calls'[c].op = "update"

\* c's call returns in this step
Returns(c) == calls[c].pc # "done" /\ calls'[c].pc = "done"

\* C1: a step of an updateConfig call changes params.yml only after that
\* call's own createBackup has returned success and its backup file is on
\* disk; a call whose createBackup failed returns success:false and none of
\* its steps writes params.yml.
C1_BackupBeforeWrite ==
  [][\A c \in Calls : UpdateStep(c) =>
       /\ params' # params =>
            /\ calls'[c].backedUp
            /\ calls'[c].backupPath # NoBackupPath
            /\ backups'[calls'[c].backupPath.root][calls'[c].backupPath.ts] # NoFile
       /\ (calls'[c].pc = "done" /\ ~calls'[c].backedUp) =>
            /\ ~calls'[c].res.success
            /\ ~calls'[c].wrote
            /\ params' = params]_vars

\* an updateConfig call has written params.yml after its backup and has
\* returned success
C1_Witness ==
  \E c \in Calls :
    /\ calls[c].op = "update" /\ calls[c].pc = "done"
    /\ calls[c].wrote /\ calls[c].backedUp /\ calls[c].res.success

\* C2: after an updateConfig call that ran alone and returned success, the
\* file at the returned backupPath exists and holds the content params.yml
\* had when the call started.
C2_BackupHoldsPreContent ==
  \A c \in Calls :
    (calls[c].op = "update" /\ calls[c].pc = "done" /\ calls[c].res.success) =>
      /\ BackupAt(calls[c].res.backupPath) # NoFile
      /\ BackupAt(calls[c].res.backupPath) = calls[c].pre

\* a successful update of a file that the update changed
C2_Witness ==
  \E c \in Calls :
    /\ calls[c].op = "update" /\ calls[c].pc = "done" /\ calls[c].res.success
    /\ calls[c].pre \in InitTexts
    /\ params[calls[c].path] # calls[c].pre
    /\ BackupAt(calls[c].res.backupPath) = calls[c].pre

\* the error strings that contain 'not configured'
ContainsNotConfigured(e) == e \in {E_NotConfigured}

\* C3: with no root path configured, an updateConfig or readConfig call
\* returns at once with success:false and an error containing
\* 'not configured', and neither params.yml, the backup directory nor any
\* backup file is created or written.
C3_NotConfigured ==
  [][\A c \in Calls :
       (blogPath = NoPath /\ calls'[c] # calls[c]
          /\ calls'[c].op \in {"update", "read"}) =>
         /\ calls'[c].pc = "done"
         /\ ~calls'[c].res.success
         /\ ContainsNotConfigured(calls'[c].res.error)
         /\ UNCHANGED fsVars]_vars

\* an updateConfig call was refused for lack of a root path while a
\* params.yml exists under the root
C3_Witness ==
  \E c \in Calls :
    /\ blogPath = NoPath
    /\ calls[c].op = "update" /\ calls[c].pc = "done"
    /\ calls[c].res.error = E_NotConfigured
    /\ params["r1"] # NoFile

Range(seq) == {seq[i] : i \in 1..Len(seq)}

\* C4: when an updateConfig call returns after a successful backup without
\* having reached the write (reading, parsing, merging or serializing
\* failed), it returns success:false, its backup file is still on disk and
\* params.yml holds what it held before the call.
C4_FailureAfterBackup ==
  [][\A c \in Calls :
       (UpdateStep(c) /\ Returns(c) /\ calls'[c].backedUp
          /\ "write" \notin Range(calls'[c].steps)) =>
         /\ ~calls'[c].res.success
         /\ backups'[calls'[c].backupPath.root][calls'[c].backupPath.ts]
              = calls'[c].pre
         /\ params'[calls'[c].path] = calls'[c].pre]_vars

\* serialize failed after the backup was made
C4_Witness ==
  \E c \in Calls :
    /\ calls[c].op = "update" /\ calls[c].pc = "done" /\ calls[c].backedUp
    /\ Range(calls[c].steps) = {"backup", "read", "merge", "serialize"}
    /\ calls[c].res.error = E_Update
    /\ BackupAt(calls[c].backupPath) = T_BAD

\* the error strings the three operations build
ErrorStrings == {E_NotConfigured, E_NotFound, E_Backup, E_Read, E_Update}

\* C12: every readConfig, createBackup and updateConfig call ends by
\* returning a result: a failure has success:false and one of the defined
\* error strings, a successful readConfig carries a config object, a
\* successful createBackup or updateConfig carries the path of a backup;
\* no call ends in any other way.
C12_ResultsNotExceptions ==
  \A c \in Calls :
    /\ calls[c].pc \in {"idle", "mkdir", "copy", "read", "write", "done"}
    /\ (calls[c].pc = "done" /\ calls[c].op # "put") =>
         /\ calls[c].res.done
         /\ ~calls[c].res.success => calls[c].res.error \in ErrorStrings
         /\ (calls[c].res.success /\ calls[c].op = "read") =>
              calls[c].res.config.t = "map"
         /\ (calls[c].res.success /\ calls[c].op \in {"update", "backup"}) =>
              calls[c].res.backupPath # NoBackupPath
    /\ calls[c].pc # "done" => ~calls[c].res.done

\* a writeFile that failed came back as the result of updateConfig
C12_Witness ==
  \E c \in Calls :
    /\ calls[c].op = "update" /\ calls[c].pc = "done"
    /\ "write" \in Range(calls[c].steps)
    /\ ~calls[c].res.success /\ calls[c].res.error = E_Update

\* C13: no step of a readConfig call, whether the call succeeds or fails,
\* changes params.yml, the backup directory or a backup file; only the
\* cached Document may change.
C13_ReadMutatesNothing ==
  [][\A c \in Calls :
       (calls'[c] # calls[c] /\ calls'[c].op = "read") =>
         UNCHANGED <<fsVars, blogPath>>]_vars

\* a readConfig call returned the parsed file and replaced the cached
\* Document
C13_Witness ==
  \E c \in Calls :
    /\ calls[c].op = "read" /\ calls[c].pc = "done" /\ calls[c].res.success
    /\ blogPath # NoPath /\ params[blogPath] # NoFile
    /\ document = parseDocument(params[blogPath])

\* C14: with a root configured under which params.yml does not exist, a
\* createBackup or updateConfig call returns at once with success:false and
\* 'params.yml not found', and neither the backup directory, a backup file
\* nor params.yml is created.
C14_MissingFileAborts ==
  [][\A c \in Calls :
       (blogPath # NoPath /\ ~ParamsExists(blogPath)
          /\ calls'[c] # calls[c] /\ calls'[c].op \in {"backup", "update"}) =>
         /\ calls'[c].pc = "done"
         /\ ~calls'[c].res.success
         /\ calls'[c].res.error = E_NotFound
         /\ ~calls'[c].backedUp /\ ~calls'[c].wrote
         /\ UNCHANGED fsVars]_vars

\* updateConfig was refused under a configured root that has neither
\* params.yml nor a backup directory
C14_Witness ==
  \E c \in Calls :
    /\ blogPath # NoPath /\ ~ParamsExists(blogPath)
    /\ ~backupDir[blogPath]
    /\ calls[c].op = "update" /\ calls[c].pc = "done"
    /\ calls[c].path = blogPath
    /\ calls[c].res.error = E_NotFound

\* C15: a readConfig or updateConfig call made while params.yml holds
\* malformed text returns success:false, readConfig hands out no parsed
\* value, and params.yml keeps its content.
C15_MalformedRejected ==
  [][\A c \in Calls :
       (calls'[c] # calls[c] /\ Returns(c)
          /\ calls'[c].op \in {"read", "update"}
          /\ calls'[c].pre # NoFile /\ calls'[c].pre.errors) =>
         /\ ~calls'[c].res.success
         /\ calls'[c].res.config = Undef
         /\ params' = params]_vars

\* the call failed in mkdir, copyFile, readFile or writeFile
IOFailure(rec) ==
  \/ rec.res.error \in {E_Backup, E_Read}
  \/ rec.res.error = E_Update /\ "write" \in Range(rec.steps)

\* C16: the response to a GET or PUT /api/config whose service call failed
\* has success:false and the failure message as error; its status is 400
\* for 'not configured' and 'not found' and 500 for a failed mkdir,
\* copyFile, readFile or writeFile.
C16_StatusMapping ==
  \A c \in Calls :
    (calls[c].pc = "done" /\ calls[c].op \in {"read", "update"}
       /\ ~calls[c].res.success) =>
      /\ ~calls[c].http.success
      /\ calls[c].http.error = calls[c].res.error
      /\ calls[c].res.error \in {E_NotConfigured, E_NotFound} =>
           calls[c].http.status = 400
      /\ IOFailure(calls[c]) => calls[c].http.status = 500

\* the fields readConfig returns for a file content
ReadValue(content) == parse(content)

FieldsOf(v) == IF v.t = "map" THEN DOMAIN v.m ELSE {}

\* C5: when an updateConfig call that ran alone returns success, every
\* top-level field the update does not name has, in the value readConfig
\* returns for the new file, the value it had in the value readConfig
\* returned for the file before the call.
C5_MergeLocality ==
  [][\A c \in Calls :
       (UpdateStep(c) /\ Returns(c) /\ calls'[c].res.success) =>
         \A before \in {ReadValue(calls'[c].pre)},
            after \in {ReadValue(params'[calls'[c].path])} :
           \A k \in (FieldsOf(before) \cup FieldsOf(after))
                       \ FieldsOf(calls'[c].updates) :
             Get(after, k) = Get(before, k)]_vars

\* author was updated in the commented file and its other fields, defaulted
\* or given, read as before
C5_Witness ==
  \E c \in Calls :
    /\ calls[c].op = "update" /\ calls[c].pc = "done" /\ calls[c].res.success
    /\ calls[c].pre = T_RICH /\ calls[c].updates = U_AUTHOR
    /\ Get(ReadValue(params[calls[c].path]), "author") = Str("B")
    /\ Get(ReadValue(params[calls[c].path]), "toc") = False
    /\ Get(ReadValue(params[calls[c].path]), "custom") = Num("5")
    /\ Get(ReadValue(params[calls[c].path]), "sidebar") = Str("left")

\* C6: when an updateConfig call returns success, readConfig returns for
\* every top-level field of the update whose value is a defined non-null
\* scalar or list exactly the value given in the update.
C6_ReadAfterWrite ==
  [][\A c \in Calls :
       (UpdateStep(c) /\ Returns(c) /\ calls'[c].res.success) =>
         \A k \in FieldsOf(calls'[c].updates) :
           calls'[c].updates.m[k].t \in {"bool", "num", "str", "list"} =>
             Get(ReadValue(params'[calls'[c].path]), k)
               = calls'[c].updates.m[k]]_vars

\* ------------------------------------------------------------------------
\* Properties of YamlService (specification SpecYaml)
\* ------------------------------------------------------------------------
\* the value the Document of the last parsed text converts to, before the
\* defaults are applied
ParsedSource == toJS(parseDocument(ytext))

\* C7: parse of a source that holds only author and email returns every
\* other field of DEFAULT_CONFIG with its default value (toc a boolean,
\* sidebar 'left' or 'right', footer.since a number, menu, widgets and share
\* lists) and author and email as the source gives them.
C7_DefaultCompletion ==
  (yop = "parse" /\ ytext \in MinimalTexts) =>
    /\ \A k \in DOMAIN DEFAULT_CONFIG.m \ {"author", "email"} :
         Get(yres, k) = DEFAULT_CONFIG.m[k]
    /\ Get(yres, "toc").t = "bool"
    /\ Get(yres, "sidebar") \in {Str("left"), Str("right")}
    /\ Get(Get(yres, "footer"), "since").t = "num"
    /\ \A k \in {"menu", "widgets", "share"} : Get(yres, k).t = "list"
    /\ \A k \in {"author", "email"} : Get(yres, k) = Get(ParsedSource, k)

\* the two-line source of author "A" and email a@x.com was parsed
C7_Witness ==
  /\ yop = "parse" /\ ytext = T_MIN
  /\ Get(yres, "author") = Str("A")
  /\ Get(yres, "toc") = True
  /\ Get(Get(yres, "footer"), "icon") = DEFAULT_ICON

\* the nested groups of DEFAULT_CONFIG
NestedGroups == DefaultGroups \cup {"footer", "dark_mode"}

\* group g of the result holds the default of every sub-field of defaults
\* that the supplied group leaves out
SubDefaultsKept(supplied, completed, defaults) ==
  supplied.t = "map" =>
    \A j \in DOMAIN defaults.m \ DOMAIN supplied.m :
      Get(completed, j) = defaults.m[j]

\* C8: for every nested group of DEFAULT_CONFIG (footer, footer.icon,
\* reimu_cursor, dark_mode, comment, algolia_search, preloader, animation,
\* firework, article_copyright, sponsor) that the source supplies without
\* one of its defaulted sub-fields, the value parse returns holds the
\* default of that sub-field.
C8_NestedDefaults ==
  yop = "parse" =>
    /\ \A g \in NestedGroups :
         SubDefaultsKept(Get(ParsedSource, g), Get(yres, g),
                         DEFAULT_CONFIG.m[g])
    /\ SubDefaultsKept(Get(Get(ParsedSource, "footer"), "icon"),
                       Get(Get(yres, "footer"), "icon"), DEFAULT_ICON)

RECURSIVE Preserved(_, _)
\* every defined non-null field of supplied, at any depth of nested groups,
\* has the same value in completed
Preserved(supplied, completed) ==
  IF supplied.t = "map"
  THEN \A k \in DOMAIN supplied.m :
         \/ supplied.m[k].t \in {"null", "undef"}
         \/ Preserved(supplied.m[k], Get(completed, k))
  ELSE supplied = completed

\* C9: every field of the parsed source whose value is defined and not null,
\* top-level or inside a nested group, has that value in the value parse
\* returns.
C9_SuppliedPreserved ==
  (yop = "parse" /\ ParsedSource.t = "map") => Preserved(ParsedSource, yres)

\* ------------------------------------------------------------------------
\* Properties of SettingsService and PathValidator (specification
\* SpecSettings)
\* ------------------------------------------------------------------------
\* C17: a second SettingsService initialized over the settings directory
\* after setBlogPath and clearBlogPath calls whose saves completed returns
\* the getBlogPath value of the first: the path last stored, or null after
\* a clear.
C17_PathPersists ==
  (sres.op = "initialize" /\ shist.saved) =>
    /\ other.loaded
    /\ other.blogPath = blogPath
    /\ other.blogPath = shist.lastSet
    /\ other.lastUpdated = lastUpdated

\* a second instance read back the root the first one stored from a path
\* with a trailing separator
C17_Witness ==
  /\ sres.op = "initialize" /\ shist.saved
  /\ settingsFile # NoFile /\ settingsFile.t = "json"
  /\ blogPath = "r1" /\ other.blogPath = "r1"
  /\ lastUpdated > 0

\* the path names a directory that holds hugo.toml and
\* config/_default/params.yml
PathIsValid(p) ==
  /\ ~Blank(p)
  /\ tree[resolve(p)].kind = "dir"
  /\ tree[resolve(p)].hugo
  /\ params[resolve(p)] # NoFile

\* C18: a setBlogPath call with a path that is empty, names nothing, names
\* no directory or lacks a required file returns valid:false and leaves
\* blogPath, lastUpdated and settings.json as they were.
C18_InvalidPathRejected ==
  [][(sres' # sres /\ sres'.op = "set" /\ ~PathIsValid(sres'.path)) =>
       /\ ~sres'.validation.valid
       /\ ~sres'.rejected
       /\ UNCHANGED <<blogPath, lastUpdated, settingsFile>>]_vars

\* a stored path survived a setBlogPath that was refused
C18_Witness ==
  /\ sres.op = "set" /\ ~sres.validation.valid
  /\ blogPath = "r1" /\ lastUpdated # NoTime
  /\ settingsFile = stringifySettings(blogPath, lastUpdated)

\* C19: validate(path) returns valid=true exactly when the path is not
\* empty and names a directory holding both required files; an invalid
\* result has at least one error, and for an existing directory
\* missingFiles lists exactly the required files that are absent.
C19_ValidationAccuracy ==
  sres.op \in {"validate", "set"} =>
    LET v == sres.validation
        p == sres.path
        absent ==
          {f \in {"hugo.toml", "config/_default/params.yml"} :
             IF f = "hugo.toml" THEN ~tree[resolve(p)].hugo
             ELSE params[resolve(p)] = NoFile}
    IN /\ v.valid <=> PathIsValid(p)
       /\ ~v.valid => Len(v.errors) > 0
       /\ (~Blank(p) /\ tree[resolve(p)].kind = "dir") =>
            /\ {v.missingFiles[i] : i \in 1..Len(v.missingFiles)} = absent
            /\ Len(v.missingFiles) = Cardinality(absent)
       /\ (Blank(p) \/ tree[resolve(p)].kind # "dir") =>
            v.missingFiles = <<>>

\* a directory that has params.yml but no hugo.toml was validated
C19_Witness ==
  /\ sres.op = "validate" /\ ~sres.validation.valid
  /\ sres.validation.missingFiles = <<"hugo.toml">>
  /\ params[resolve(sres.path)] # NoFile

\* ------------------------------------------------------------------------
\* Properties of PostService (specification SpecPosts)
\* ------------------------------------------------------------------------
\* C20: when a createPost call computes its filename and the file of that
\* name exists in content/post, the call returns in that same step with
\* success:false and 'File already exists', and no post file changes.
C20_NoOverwrite ==
  [][\A c \in PostCalls :
       (pcalls'[c] # pcalls[c] /\ pcalls[c].pc # "write"
          /\ pcalls'[c].filename # NoName
          /\ posts[pcalls'[c].root][pcalls'[c].filename] # NoFile) =>
         /\ pcalls'[c].pc = "done"
         /\ ~pcalls'[c].res.success
         /\ pcalls'[c].res.error = E_Exists
         /\ posts' = posts]_vars

\* a createPost whose title sanitizes to the name of a post made outside
\* the tool was refused and that post is intact
C20_Witness ==
  \E c \in PostCalls :
    /\ pcalls[c].pc = "done" /\ pcalls[c].res.error = E_Exists
    /\ pcalls[c].request.title = <<" ", "h", "I", " ">>
    /\ posts[pcalls[c].root][pcalls[c].filename] = ExistingPost

RECURSIVE Comments(_)
\* extractStandaloneComments: the comment lines of a text
Comments(n) ==
  CASE n.t = "seq" ->
         (IF n.cmt = "" THEN {} ELSE {n.cmt})
           \cup UNION {Comments(n.items[i]) : i \in 1..Len(n.items)}
    [] n.t = "ymap" ->
         UNION {(IF n.items[i].cmt = "" THEN {} ELSE {n.items[i].cmt})
                  \cup Comments(n.items[i].val) : i \in 1..Len(n.items)}
    [] OTHER -> {}

\* C11: the text serialize produces against the Document parsed from a
\* source text contains every comment line of that source text, whatever
\* fields the value given to serialize holds.
C11_CommentsPreserved ==
  [][(yop = "parse" /\ yop' = "update") =>
       Comments(ytext.root) \subseteq Comments(ytext'.root)]_vars

RECURSIVE compareValues(_, _)
\* configsAreEquivalent of the round-trip test: every defined value of orig
\* is found in pars
compareValues(orig, pars) ==
  CASE orig.t = "undef" -> TRUE
    [] pars.t = "undef" -> FALSE
    [] orig.t = "null" -> pars.t = "null"
    [] orig.t = "list" ->
         /\ pars.t = "list"
         /\ Len(orig.l) = Len(pars.l)
         /\ \A i \in 1..Len(orig.l) : compareValues(orig.l[i], pars.l[i])
    [] orig.t = "map" ->
         /\ pars.t \in {"map", "list"}
         /\ \A k \in DOMAIN orig.m :
              orig.m[k].t # "undef" =>
                compareValues(orig.m[k], Get(pars, k))
    [] OTHER -> orig = pars

\* C10: serializing a BlogConfig value with no Document cached and parsing
\* the text produced yields a value that agrees with it on every defined
\* field; lists, empty ones too, stay lists.
C10_RoundTrip ==
  yop = "roundtrip" => compareValues(yval, yres)

\* a value with a string that reads as a number and an empty list went
\* through serialize and parse
C10_Witness ==
  /\ yop = "roundtrip"
  /\ Get(yval, "author") = Str("12") /\ Get(yres, "author") = Str("12")
  /\ Get(yval, "custom") = List(<<>>) /\ Get(yres, "custom") = List(<<>>)

\* ------------------------------------------------------------------------
\* Properties of mergeConfig (specification SpecMerge)
\* ------------------------------------------------------------------------
\* the value the reference merge gives key k
RefMergeKey(current, update, k) ==
  LET c == Get(current, k)
      u == Get(update, k)
  IN IF k \notin FieldsOf(update) \/ u.t \in {"null", "undef"} THEN c
     ELSE IF c.t = "map" /\ u.t = "map"
     THEN Map([j \in DOMAIN c.m \cup DOMAIN u.m |->
                IF j \in DOMAIN u.m THEN u.m[j] ELSE c.m[j]])
     ELSE u

\* the keys the reference merge gives a value
RefMergeKeys(current, update) ==
  FieldsOf(current)
    \cup {k \in FieldsOf(update) : update.m[k].t \notin {"null", "undef"}}

SerializeStep ==
  /\ yop' \in {"stringify", "update"}
  /\ <<yop, yval, ytext>>' # <<yop, yval, ytext>>

\* the step is a parse call that another operation preceded
ParseStep ==
  /\ yop' \in {"parse", "roundtrip"}
  /\ <<yop, ytext>>' # <<yop, ytext>>

\* C22: the service holds no Document until the first parse and after every
\* reset; every parse caches the Document of its text; serialize returns
\* the text of the cached Document updated in place exactly when one is
\* cached, and the structure-free text of the value otherwise; serialize
\* neither clears, creates nor replaces the cached Document.
C22_DocumentLifecycle ==
  /\ [](yop = "none" => document = NoDoc)
  /\ [][/\ ParseStep => document' = parseDocument(ytext')
        /\ (document = NoDoc /\ document' # NoDoc) =>
             /\ yop' \in {"parse", "roundtrip"}
             /\ document' = parseDocument(ytext')
        /\ (document # NoDoc /\ document' = NoDoc) => UNCHANGED yamlIO
        /\ SerializeStep =>
             /\ (yop' = "update") <=> (document # NoDoc)
             /\ document = NoDoc =>
                  /\ document' = NoDoc
                  /\ ytext' = stringify(yval')
             /\ document # NoDoc =>
                  /\ document' # NoDoc
                  /\ document'.errors = document.errors
                  /\ ytext' = toString(document')
                  /\ document'.contents
                       = updateDocument(document.contents, yval')]_vars

\* a serialize against the Document of a commented file kept the Document
\* and its comment line, and its text is not the structure-free one
C22_Witness ==
  /\ yop = "update" /\ document # NoDoc
  /\ "# site" \in Comments(ytext.root)
  /\ ytext = toString(document)
  /\ ytext # stringify(yval)

\* ------------------------------------------------------------------------
\* Properties of overlapping calls (specification SpecConc)
\* ------------------------------------------------------------------------
\* c's updateConfig call has returned success
Succeeded(c) ==
  calls[c].op = "update" /\ calls[c].pc = "done" /\ calls[c].res.success

\* C23: when two updateConfig calls on one file have both read the same
\* content (neither read what the other wrote) and both have returned
\* success, params.yml holds the text of the later writer alone: every field
\* that only the earlier writer's update names reads as it did in the
\* content both calls read.
C23_LostUpdate ==
  \A c, d \in Calls :
    (c # d /\ Succeeded(c) /\ Succeeded(d)
       /\ calls[c].path = calls[d].path /\ calls[c].rpath = calls[c].path
       /\ calls[d].rpath = calls[d].path
       /\ calls[c].seen = calls[d].seen
       /\ calls[d].over = calls[c].text) =>
      /\ params[calls[d].path] = calls[d].text
      /\ \A k \in FieldsOf(calls[c].updates) \ FieldsOf(calls[d].updates) :
           Get(ReadValue(params[calls[d].path]), k)
             = Get(ReadValue(calls[c].seen), k)

\* both calls read the commented file before either wrote it, both
\* returned success, and author, set to B by the earlier writer, is A again
C23_Witness ==
  \E c, d \in Calls :
    /\ c # d /\ Succeeded(c) /\ Succeeded(d)
    /\ calls[c].updates = U_AUTHOR /\ calls[d].updates = U_TOC
    /\ calls[c].seen = T_RICH /\ calls[d].seen = T_RICH
    /\ calls[d].over = calls[c].text
    /\ Get(ReadValue(calls[c].text), "author") = Str("B")
    /\ params["r1"] = calls[d].text
    /\ Get(ReadValue(params["r1"]), "author") = Str("A")

\* C24: when an updateConfig call returns success, the file at the
\* backupPath it returns holds the content params.yml held just before that
\* call's writeFile replaced it, whatever other updateConfig call overlaps
\* it.
C24_BackupUnderOverlap ==
  [][\A c \in Calls :
       (UpdateStep(c) /\ Returns(c) /\ calls'[c].res.success) =>
         \A bp \in {calls'[c].res.backupPath} :
           /\ bp # NoBackupPath
           /\ backups'[bp.root][bp.ts] # NoFile
           /\ backups'[bp.root][bp.ts] = params[calls[c].path]]_vars

\* C25: whatever readConfig and updateConfig calls overlap, the text an
\* updateConfig call hands to writeFile is the text of the Document parsed
\* from the content that same call read, updated with that call's merged
\* value, and that Document is the one cached when the run ends: no other
\* call's parse or serialize comes between the call's parse and its
\* serialize.
C25_OwnDocument ==
  [][\A c \in Calls :
       (UpdateStep(c) /\ calls[c].pc = "read" /\ calls'[c].pc = "write") =>
         \A own \in {DocAfterSerialize(parseDocument(calls'[c].seen),
                        mergeConfig(parse(calls'[c].seen), calls'[c].updates))} :
           /\ calls'[c].seen = params[calls[c].rpath]
           /\ document' = own
           /\ calls'[c].text = toString(own)]_vars

\* an updateConfig call serialized against its own Document although the
\* Document cached before its run came from another call's read of another
\* file
C25_Witness ==
  \E c \in Calls :
    /\ calls[c].op = "update" /\ calls[c].pc = "write"
    /\ calls[c].seen = T_RICH
    /\ document = DocAfterSerialize(parseDocument(T_RICH),
                     mergeConfig(parse(T_RICH), calls[c].updates))
    /\ \E d \in Calls \ {c} :
         /\ calls[d].op = "read" /\ calls[d].pc = "done"
         /\ calls[d].res.success /\ calls[d].rpath = "r2"

\* C26: the file an updateConfig call reads and the file it writes are the
\* params.yml it backed up, under the root that was configured when the
\* call started, even if setBlogPath or clearBlogPath runs while the call
\* is suspended.
C26_OneFilePerCall ==
  \A c \in Calls :
    (calls[c].op = "update" /\ calls[c].backedUp) =>
      /\ calls[c].backupPath.root = calls[c].path
      /\ calls[c].seen # NoFile => calls[c].rpath = calls[c].path
      /\ calls[c].wrote => calls[c].rpath = calls[c].path

RawValue(content) == toJS(parseDocument(content))

RECURSIVE KeysKept(_, _, _)
\* every key of before is a key of after, and so on inside each group that
\* the update gives a group for
KeysKept(before, after, update) ==
  before.t = "map" =>
    /\ after.t = "map"
    /\ \A k \in DOMAIN before.m :
         /\ k \in DOMAIN after.m
         /\ (Get(update, k).t = "map" /\ before.m[k].t = "map") =>
              KeysKept(before.m[k], after.m[k], update.m[k])

\* C28: after a successful updateConfig, params.yml has every top-level key
\* it had before and, inside every nested group the update gives a group
\* for, every sub-key it had before; a sub-field of such a group that the
\* update leaves out reads as it did before.
C28_NoKeyRemoved ==
  [][\A c \in Calls :
       (UpdateStep(c) /\ Returns(c) /\ calls'[c].res.success) =>
         \A u \in {calls'[c].updates} :
           /\ KeysKept(RawValue(params[calls[c].path]),
                       RawValue(params'[calls[c].path]), u)
           /\ \A before \in {ReadValue(params[calls[c].path])},
                 after \in {ReadValue(params'[calls[c].path])} :
                \A k \in FieldsOf(u) :
                  (u.m[k].t = "map" /\ Get(before, k).t = "map") =>
                    \A j \in FieldsOf(Get(before, k)) \ FieldsOf(u.m[k]) :
                      Get(Get(after, k), j) = Get(Get(before, k), j)]_vars

\* footer.icon was given a group with rotate alone: url, which the file
\* had and the update left out, is still in the file with its value
C28_Witness ==
  \E c \in Calls :
    /\ Succeeded(c) /\ calls[c].updates = U_ICON
    /\ Get(Get(Get(RawValue(calls[c].pre), "footer"), "icon"), "url") = Str("u")
    /\ Get(Get(Get(RawValue(params["r1"]), "footer"), "icon"), "url") = Str("u")
    /\ Get(Get(Get(RawValue(params["r1"]), "footer"), "icon"), "rotate") = True

\* ------------------------------------------------------------------------
\* Overlapping createPost calls (specification SpecPosts)
\* ------------------------------------------------------------------------
\* C29: of two createPost calls for the same file name under the same root,
\* at most one returns success:true, and the file then holds the front
\* matter of that call.
C29_OneCreatorPerFile ==
  \A c, d \in PostCalls :
    (c # d /\ pcalls[c].pc = "done" /\ pcalls[d].pc = "done"
       /\ pcalls[c].root = pcalls[d].root
       /\ pcalls[c].filename # NoName
       /\ pcalls[c].filename = pcalls[d].filename
       /\ pcalls[c].res.success) =>
      /\ ~pcalls[d].res.success
      /\ posts[pcalls[c].root][pcalls[c].filename] = pcalls[c].content

\* ------------------------------------------------------------------------
\* Progress of calls (specification SpecLive)
\* ------------------------------------------------------------------------
UpdateSteps == <<"backup", "read", "merge", "serialize", "write">>

IsPrefix(a, b) == Len(a) <= Len(b) /\ a = SubSeq(b, 1, Len(a))

\* the steps c's call has executed are the first steps of its operation, in
\* order and once each; a call that returned has executed all of them or
\* has returned a failure
StepsInOrder(c) ==
  /\ calls[c].op = "update" => IsPrefix(calls[c].steps, UpdateSteps)
  /\ calls[c].op = "read" => IsPrefix(calls[c].steps, <<"read">>)
  /\ (calls[c].op = "update" /\ calls[c].pc = "done") =>
       /\ calls[c].res.success => calls[c].steps = UpdateSteps
       /\ calls[c].steps # UpdateSteps =>
            ~calls[c].res.success /\ calls[c].res.error # ""

\* C30: every readConfig and updateConfig call that has started returns a
\* result, given that each file I/O step it starts completes; an
\* updateConfig call executes backup, read, merge, serialize and write in
\* that order, each at most once, and after the first step that fails it
\* returns a failure with no later step executed.
C30_CallsReturn ==
  /\ [](\A c \in Calls : StepsInOrder(c))
  /\ \A c \in Calls :
       (calls[c].pc \notin {"idle", "done"})
         ~> (calls[c].pc = "done" /\ calls[c].res.done)

\* an updateConfig call returned the failure of its readFile after its
\* backup, with no merge, serialize or write
C30_Witness ==
  \E c \in Calls :
    /\ calls[c].op = "update" /\ calls[c].pc = "done"
    /\ calls[c].steps = <<"backup", "read">>
    /\ calls[c].res.error = E_Read /\ calls[c].backedUp /\ ~calls[c].wrote

====
